---- MODULE Spec2Model ----
(***************************************************************************)
(* A model of rustreexo's accumulator::node_hash::NodeHash: the three-state *)
(* node identity (Empty, Placeholder, Some(digest)), its byte view, its     *)
(* derived ordering, its hex text form and its tagged binary encoding.      *)
(*                                                                          *)
(* NodeHash is a pure value type, so the state machine is a caller holding  *)
(* NodeHash values, a byte sink, a byte source and a piece of text, and     *)
(* calling the type's operations on them.  `call` records the last call:    *)
(* its operation, its arguments and what it returned.                       *)
(***************************************************************************)
EXTENDS Integers, Sequences, FiniteSets, TLC

VARIABLES
    cfg_test,   \* TRUE when the crate is compiled with cfg(test)
    x, y, z,    \* NodeHash values held by the caller (NodeHash is Copy)
    made,       \* how x was constructed: the constructor and its argument
    text,       \* a string held by the caller, a sequence of characters
    sink,       \* the bytes of the sink handed to write()
    source,     \* the byte source handed to read()
    wrote,      \* the write() calls made on the sink: the value and whether Ok
    call        \* the last call: operation, arguments, result

vars == <<cfg_test, x, y, z, made, text, sink, source, wrote, call>>

----------------------------------------------------------------------------
(* Bounds of the model and constants of the program. *)

\* [u8; 32]: the payload length of NodeHash::Some.
HashLen == 32

\* How many of SampleBytes are used to build the sample digests.
NumFill == 2

\* Bytes the sample digests are built from: the extremes first, then the
\* values around the sign bit.
SampleBytes == <<0, 255, 128, 127, 1, 254>>

Min(a, b) == IF a < b THEN a ELSE b

Byte == 0..255

FillBytes == {SampleBytes[i] : i \in 1..Min(NumFill, Len(SampleBytes))}

\* A digest that is c everywhere.
Fill(c) == [i \in 1..HashLen |-> c]

\* A digest that is zero everywhere but b at position k.
Poke(k, b) == [i \in 1..HashLen |-> IF i = k THEN b ELSE 0]

\* A digest whose bytes all differ from their neighbours: s, s+7, s+14, ...
Ramp(s) == [i \in 1..HashLen |-> (s + 7 * (i - 1)) % 256]

\* The sample 32-byte arrays: uniform ones (the all-zero array among them),
\* ones that differ from it in the first or the last byte only, and a ramp.
Digests ==
    {Fill(c) : c \in FillBytes}
        \cup {Poke(k, b) : k \in {1, HashLen}, b \in FillBytes}
        \cup {Ramp(3)}

Zeros == Fill(0)

----------------------------------------------------------------------------
(* pub enum NodeHash { Empty, Placeholder, Some([u8; 32]) } *)

Empty == [variant |-> "Empty"]

Placeholder == [variant |-> "Placeholder"]

Some(inner) == [variant |-> "Some", inner |-> inner]

NodeHash == {Empty, Placeholder} \cup {Some(d) : d \in Digests}

\* What a call returns: a value, an error, or a panic that unwinds.
Ok(v) == [kind |-> "Ok", val |-> v]

Err(e) == [kind |-> "Err", err |-> e]

Panic == [kind |-> "Panic"]

\* #[derive(Default)] with #[default] on Empty.
default == Empty

\* NodeHash::empty()
empty == Empty

\* NodeHash::placeholder()
placeholder == Placeholder

\* NodeHash::new(inner)
new(inner) == Some(inner)

\* impl From<[u8; 32]> for NodeHash
from(hash) == Some(hash)

\* impl From<&[u8; 32]> for NodeHash
from_ref(hash) == Some(hash)

\* impl From<&[u8]> for NodeHash: copy_from_slice panics unless the slice
\* is exactly as long as the 32-byte buffer.
from_slice(hash) ==
    IF Len(hash) # HashLen
    THEN Panic
    ELSE Ok(Some([i \in 1..HashLen |-> hash[i]]))

\* NodeHash::is_empty
is_empty(self) == self.variant = "Empty"

\* A byte view that gives Placeholder a sentinel of its own.
deref_placeholder_sentinel(self) ==
    IF self.variant = "Some"
    THEN self.inner
    ELSE [i \in 1..HashLen |-> IF self.variant = "Placeholder" THEN 1 ELSE 0]

\* impl Deref for NodeHash: the payload of Some, else a fixed [0; 32].
deref(self) ==
    IF self.variant = "Some"
    THEN self.inner
    ELSE [i \in 1..HashLen |-> 0]

----------------------------------------------------------------------------
(* #[derive(Eq, PartialEq, PartialOrd, Ord)]: variants compare by their    *)
(* declaration order, two Some values by their arrays, and arrays of u8    *)
(* lexicographically by unsigned byte value.                               *)

discriminant(self) ==
    CASE self.variant = "Empty" -> 0
      [] self.variant = "Placeholder" -> 1
      [] self.variant = "Some" -> 2

\* The comparison of two bytes read as i8.
cmp_i8(a, b) ==
    LET sa == IF a >= 128 THEN a - 256 ELSE a
        sb == IF b >= 128 THEN b - 256 ELSE b
    IN  IF sa < sb THEN "Less" ELSE IF sa > sb THEN "Greater" ELSE "Equal"

cmp_u8(a, b) ==
    IF a < b THEN "Less" ELSE IF a > b THEN "Greater" ELSE "Equal"

RECURSIVE cmp_array_from(_, _, _)
cmp_array_from(a, b, i) ==
    IF i > HashLen
    THEN "Equal"
    ELSE IF cmp_u8(a[i], b[i]) # "Equal"
         THEN cmp_u8(a[i], b[i])
         ELSE cmp_array_from(a, b, i + 1)

cmp_array(a, b) == cmp_array_from(a, b, 1)

cmp(self, other) ==
    IF discriminant(self) # discriminant(other)
    THEN cmp_u8(discriminant(self), discriminant(other))
    ELSE IF self.variant = "Some"
         THEN cmp_array(self.inner, other.inner)
         ELSE "Equal"

eq(self, other) ==
    /\ discriminant(self) = discriminant(other)
    /\ self.variant = "Some" => \A i \in 1..HashLen : self.inner[i] = other.inner[i]

----------------------------------------------------------------------------
(* The hex text form.  A string is a sequence of one-character strings.      *)

LowerHex == <<"0", "1", "2", "3", "4", "5", "6", "7",
              "8", "9", "a", "b", "c", "d", "e", "f">>

UpperHex == <<"0", "1", "2", "3", "4", "5", "6", "7",
              "8", "9", "A", "B", "C", "D", "E", "F">>

\* "{:x}": the byte in lowercase hex with no padding.
format_x(byte) ==
    IF byte < 16
    THEN <<LowerHex[byte + 1]>>
    ELSE <<LowerHex[(byte \div 16) + 1], LowerHex[(byte % 16) + 1]>>

\* "{:02x}": the byte as two lowercase hex digits, the high one first.
format_02x(byte) ==
    <<LowerHex[(byte \div 16) + 1], LowerHex[(byte % 16) + 1]>>

RECURSIVE fmt_bytes(_, _)
fmt_bytes(inner, i) ==
    IF i > Len(inner)
    THEN <<>>
    ELSE format_02x(inner[i]) \o fmt_bytes(inner, i + 1)

\* impl Display for NodeHash (impl Debug is the same code).
fmt(self) ==
    IF self.variant = "Some"
    THEN fmt_bytes(self.inner, 1)
    ELSE <<"e", "m", "p", "t", "y">>

\* hex::val: the value of one hex digit, or -1 for any other character.
val(c) ==
    IF \E n \in 1..16 : LowerHex[n] = c
    THEN (CHOOSE n \in 1..16 : LowerHex[n] = c) - 1
    ELSE IF \E n \in 1..16 : UpperHex[n] = c
         THEN (CHOOSE n \in 1..16 : UpperHex[n] = c) - 1
         ELSE -1

RECURSIVE decode_pairs(_, _)
decode_pairs(hex, i) ==
    IF i > Len(hex) \div 2
    THEN Ok(<<>>)
    ELSE LET hi == val(hex[2 * i - 1])
             lo == val(hex[2 * i])
         IN  IF hi < 0
             THEN Err([error |-> "InvalidHexCharacter", c |-> hex[2 * i - 1], index |-> 2 * i - 2])
             ELSE IF lo < 0
                  THEN Err([error |-> "InvalidHexCharacter", c |-> hex[2 * i], index |-> 2 * i - 1])
                  ELSE LET rest == decode_pairs(hex, i + 1)
                       IN  IF rest.kind = "Err"
                           THEN rest
                           ELSE Ok(<<hi * 16 + lo>> \o rest.val)

\* hex::decode: an odd length is refused first, then each pair of digits
\* gives one byte; the result is as long as the input allows.
hex_decode(hex) ==
    IF Len(hex) % 2 # 0
    THEN Err([error |-> "OddLength"])
    ELSE decode_pairs(hex, 1)

\* Vec<u8>::try_into::<[u8; 32]>().unwrap()
try_into_unwrap(vec) ==
    IF Len(vec) = HashLen THEN Ok(vec) ELSE Panic

ZeroString == [i \in 1..(2 * HashLen) |-> "0"]

\* impl TryFrom<&str> for NodeHash, the cfg(test) one and the
\* cfg(not(test)) one.
try_from(test, hash) ==
    IF test /\ hash = ZeroString
    THEN Ok(Empty)
    ELSE LET decoded == hex_decode(hash) IN
         IF decoded.kind = "Err"
         THEN decoded
         ELSE LET array == try_into_unwrap(decoded.val) IN
              IF array.kind = "Panic"
              THEN Panic
              ELSE Ok(Some(array.val))

\* impl FromStr for NodeHash
from_str(test, s) == try_from(test, s)

----------------------------------------------------------------------------
(* The tagged binary encoding.  A sink is its bytes so far (buf), the      *)
(* number of bytes it still accepts before its write fails (accept) and    *)
(* the error it then returns (fail).  A source is the bytes it still holds *)
(* (data) and the error its read returns once they are used up (fail):     *)
(* for a source that just ends, read_exact's UnexpectedEof.                *)

io_error(kind, msg) == [kind |-> kind, msg |-> msg]

\* std::io::Write::write_all: the bytes the sink accepts are appended, and
\* the sink's error is returned if it did not accept them all.
write_all(writer, data) ==
    IF writer.accept >= Len(data)
    THEN [w |-> [writer EXCEPT !.buf = @ \o data, !.accept = @ - Len(data)],
          out |-> Ok(<<>>)]
    ELSE [w |-> [writer EXCEPT !.buf = @ \o SubSeq(data, 1, writer.accept), !.accept = 0],
          out |-> Err(io_error(writer.fail, "write"))]

\* write() with the payload sent before the tag.
write_payload_first(self, writer) ==
    CASE self.variant = "Empty" -> write_all(writer, <<0>>)
      [] self.variant = "Placeholder" -> write_all(writer, <<1>>)
      [] self.variant = "Some" ->
            LET first == write_all(writer, self.inner) IN
            IF first.out.kind = "Err"
            THEN first
            ELSE write_all(first.w, <<2>>)

\* write() with the tags of Empty and Placeholder exchanged.
write_tags_exchanged(self, writer) ==
    CASE self.variant = "Empty" -> write_all(writer, <<1>>)
      [] self.variant = "Placeholder" -> write_all(writer, <<0>>)
      [] self.variant = "Some" ->
            LET tag == write_all(writer, <<2>>) IN
            IF tag.out.kind = "Err"
            THEN tag
            ELSE write_all(tag.w, self.inner)

\* NodeHash::write
write(self, writer) ==
    CASE self.variant = "Empty" -> write_all(writer, <<0>>)
      [] self.variant = "Placeholder" -> write_all(writer, <<1>>)
      [] self.variant = "Some" ->
            LET tag == write_all(writer, <<2>>) IN
            IF tag.out.kind = "Err"
            THEN tag
            ELSE write_all(tag.w, self.inner)

\* A read that fills what it can and leaves the rest of the buffer zero.
read_zero_fill(rd, n) ==
    IF Len(rd.data) >= n
    THEN [r |-> [rd EXCEPT !.data = SubSeq(@, n + 1, Len(@))],
          out |-> Ok(SubSeq(rd.data, 1, n))]
    ELSE [r |-> [rd EXCEPT !.data = <<>>],
          out |-> Ok(rd.data \o [i \in 1..(n - Len(rd.data)) |-> 0])]

\* std::io::Read::read_exact: n bytes, or the source's error once it has
\* given all it holds.
read_exact(rd, n) ==
    IF Len(rd.data) >= n
    THEN [r |-> [rd EXCEPT !.data = SubSeq(@, n + 1, Len(@))],
          out |-> Ok(SubSeq(rd.data, 1, n))]
    ELSE [r |-> [rd EXCEPT !.data = <<>>],
          out |-> Err(io_error(rd.fail, "read"))]

\* read() taking any unknown tag for Empty.
read_unknown_is_empty(rd) ==
    LET tag == read_exact(rd, 1) IN
    IF tag.out.kind = "Err"
    THEN tag
    ELSE CASE tag.out.val = <<1>> -> [r |-> tag.r, out |-> Ok(Placeholder)]
           [] tag.out.val = <<2>> ->
                LET hash == read_exact(tag.r, HashLen) IN
                IF hash.out.kind = "Err"
                THEN hash
                ELSE [r |-> hash.r, out |-> Ok(Some(hash.out.val))]
           [] OTHER -> [r |-> tag.r, out |-> Ok(Empty)]

\* read() taking an all-zero payload for Empty.
read_zero_is_empty(rd) ==
    LET tag == read_exact(rd, 1) IN
    IF tag.out.kind = "Err"
    THEN tag
    ELSE CASE tag.out.val = <<0>> -> [r |-> tag.r, out |-> Ok(Empty)]
           [] tag.out.val = <<1>> -> [r |-> tag.r, out |-> Ok(Placeholder)]
           [] tag.out.val = <<2>> ->
                LET hash == read_exact(tag.r, HashLen) IN
                IF hash.out.kind = "Err"
                THEN hash
                ELSE [r |-> hash.r,
                      out |-> Ok(IF hash.out.val = [i \in 1..HashLen |-> 0]
                                 THEN Empty
                                 ELSE Some(hash.out.val))]
           [] OTHER ->
                [r |-> tag.r,
                 out |-> Err(io_error("InvalidData", "unexpected tag for NodeHash"))]

\* NodeHash::read
read(rd) ==
    LET tag == read_exact(rd, 1) IN
    IF tag.out.kind = "Err"
    THEN tag
    ELSE CASE tag.out.val = <<0>> -> [r |-> tag.r, out |-> Ok(Empty)]
           [] tag.out.val = <<1>> -> [r |-> tag.r, out |-> Ok(Placeholder)]
           [] tag.out.val = <<2>> ->
                LET hash == read_exact(tag.r, HashLen) IN
                IF hash.out.kind = "Err"
                THEN hash
                ELSE [r |-> hash.r, out |-> Ok(Some(hash.out.val))]
           [] OTHER ->
                [r |-> tag.r,
                 out |-> Err(io_error("InvalidData", "unexpected tag for NodeHash"))]

----------------------------------------------------------------------------
(* sha2::Sha512_256, the digest parent_hash uses: SHA-512 with the         *)
(* SHA-512/256 initial hash value, cut to 256 bits (FIPS 180-4).  A 64-bit *)
(* word is four 16-bit limbs, the most significant first.                  *)

XorNibble ==
    <<<<0, 1, 2, 3, 4, 5, 6, 7, 8, 9, 10, 11, 12, 13, 14, 15>>,
      <<1, 0, 3, 2, 5, 4, 7, 6, 9, 8, 11, 10, 13, 12, 15, 14>>,
      <<2, 3, 0, 1, 6, 7, 4, 5, 10, 11, 8, 9, 14, 15, 12, 13>>,
      <<3, 2, 1, 0, 7, 6, 5, 4, 11, 10, 9, 8, 15, 14, 13, 12>>,
      <<4, 5, 6, 7, 0, 1, 2, 3, 12, 13, 14, 15, 8, 9, 10, 11>>,
      <<5, 4, 7, 6, 1, 0, 3, 2, 13, 12, 15, 14, 9, 8, 11, 10>>,
      <<6, 7, 4, 5, 2, 3, 0, 1, 14, 15, 12, 13, 10, 11, 8, 9>>,
      <<7, 6, 5, 4, 3, 2, 1, 0, 15, 14, 13, 12, 11, 10, 9, 8>>,
      <<8, 9, 10, 11, 12, 13, 14, 15, 0, 1, 2, 3, 4, 5, 6, 7>>,
      <<9, 8, 11, 10, 13, 12, 15, 14, 1, 0, 3, 2, 5, 4, 7, 6>>,
      <<10, 11, 8, 9, 14, 15, 12, 13, 2, 3, 0, 1, 6, 7, 4, 5>>,
      <<11, 10, 9, 8, 15, 14, 13, 12, 3, 2, 1, 0, 7, 6, 5, 4>>,
      <<12, 13, 14, 15, 8, 9, 10, 11, 4, 5, 6, 7, 0, 1, 2, 3>>,
      <<13, 12, 15, 14, 9, 8, 11, 10, 5, 4, 7, 6, 1, 0, 3, 2>>,
      <<14, 15, 12, 13, 10, 11, 8, 9, 6, 7, 4, 5, 2, 3, 0, 1>>,
      <<15, 14, 13, 12, 11, 10, 9, 8, 7, 6, 5, 4, 3, 2, 1, 0>>>>

AndNibble ==
    <<<<0, 0, 0, 0, 0, 0, 0, 0, 0, 0, 0, 0, 0, 0, 0, 0>>,
      <<0, 1, 0, 1, 0, 1, 0, 1, 0, 1, 0, 1, 0, 1, 0, 1>>,
      <<0, 0, 2, 2, 0, 0, 2, 2, 0, 0, 2, 2, 0, 0, 2, 2>>,
      <<0, 1, 2, 3, 0, 1, 2, 3, 0, 1, 2, 3, 0, 1, 2, 3>>,
      <<0, 0, 0, 0, 4, 4, 4, 4, 0, 0, 0, 0, 4, 4, 4, 4>>,
      <<0, 1, 0, 1, 4, 5, 4, 5, 0, 1, 0, 1, 4, 5, 4, 5>>,
      <<0, 0, 2, 2, 4, 4, 6, 6, 0, 0, 2, 2, 4, 4, 6, 6>>,
      <<0, 1, 2, 3, 4, 5, 6, 7, 0, 1, 2, 3, 4, 5, 6, 7>>,
      <<0, 0, 0, 0, 0, 0, 0, 0, 8, 8, 8, 8, 8, 8, 8, 8>>,
      <<0, 1, 0, 1, 0, 1, 0, 1, 8, 9, 8, 9, 8, 9, 8, 9>>,
      <<0, 0, 2, 2, 0, 0, 2, 2, 8, 8, 10, 10, 8, 8, 10, 10>>,
      <<0, 1, 2, 3, 0, 1, 2, 3, 8, 9, 10, 11, 8, 9, 10, 11>>,
      <<0, 0, 0, 0, 4, 4, 4, 4, 8, 8, 8, 8, 12, 12, 12, 12>>,
      <<0, 1, 0, 1, 4, 5, 4, 5, 8, 9, 8, 9, 12, 13, 12, 13>>,
      <<0, 0, 2, 2, 4, 4, 6, 6, 8, 8, 10, 10, 12, 12, 14, 14>>,
      <<0, 1, 2, 3, 4, 5, 6, 7, 8, 9, 10, 11, 12, 13, 14, 15>>>>

K64 ==
    <<<<17034, 12184, 55080, 44578>>,
      <<28983, 17553, 9199, 26061>>,
      <<46528, 64463, 60493, 15151>>,
      <<59829, 56229, 33161, 56252>>,
      <<14678, 49755, 62280, 46392>>,
      <<23025, 4593, 46597, 53273>>,
      <<37439, 33444, 44825, 20379>>,
      <<43804, 24277, 55917, 33048>>,
      <<55303, 43672, 41731, 578>>,
      <<4739, 23297, 17776, 28606>>,
      <<9265, 34238, 20196, 45708>>,
      <<21772, 32195, 54783, 46306>>,
      <<29374, 23924, 62075, 35183>>,
      <<32990, 45566, 15126, 38577>>,
      <<39900, 1703, 9671, 4661>>,
      <<49563, 61812, 53097, 9876>>,
      <<58523, 27073, 40689, 19154>>,
      <<61374, 18310, 14415, 9699>>,
      <<4033, 40390, 35724, 54709>>,
      <<9228, 41420, 30636, 40037>>,
      <<11753, 11375, 22827, 629>>,
      <<19060, 33962, 28326, 58499>>,
      <<23728, 43484, 48449, 64468>>,
      <<30457, 35034, 33553, 21429>>,
      <<38974, 20818, 61030, 57259>>,
      <<43057, 50797, 11700, 12816>>,
      <<45059, 10184, 39163, 8511>>,
      <<48985, 32711, 48879, 3812>>,
      <<50912, 3059, 15784, 36802>>,
      <<54695, 37191, 37642, 42789>>,
      <<1738, 25425, 57347, 33391>>,
      <<5161, 10599, 2574, 28272>>,
      <<10167, 2693, 18130, 12284>>,
      <<11803, 8504, 23590, 51494>>,
      <<19756, 28156, 23236, 10989>>,
      <<21304, 3347, 40341, 46047>>,
      <<25866, 29524, 35759, 25566>>,
      <<30314, 2747, 15479, 45736>>,
      <<33218, 51502, 18413, 44774>>,
      <<37490, 11397, 5250, 13627>>,
      <<41663, 59553, 19697, 868>>,
      <<43034, 26187, 48194, 12289>>,
      <<49739, 35696, 53496, 38801>>,
      <<51052, 20899, 1620, 48688>>,
      <<53650, 59417, 55023, 21016>>,
      <<54937, 1572, 21861, 43280>>,
      <<62478, 13701, 22385, 8234>>,
      <<4202, 41072, 12987, 53688>>,
      <<6564, 49430, 47314, 53448>>,
      <<7735, 27656, 20801, 43859>>,
      <<10056, 30540, 57230, 60313>>,
      <<13488, 48309, 57755, 18600>>,
      <<14620, 3251, 50633, 23139>>,
      <<20184, 43594, 58177, 35531>>,
      <<23452, 51791, 30563, 58227>>,
      <<26670, 28659, 54962, 47267>>,
      <<29839, 33518, 24047, 45820>>,
      <<30885, 25455, 17175, 12128>>,
      <<33992, 30740, 41456, 43890>>,
      <<36039, 520, 6756, 14828>>,
      <<37054, 65530, 9059, 7720>>,
      <<42064, 27883, 56962, 48617>>,
      <<48889, 41975, 45766, 30997>>,
      <<50801, 30962, 58226, 21291>>,
      <<51751, 16078, 59942, 24988>>,
      <<53638, 47303, 8640, 49671>>,
      <<60122, 32214, 52704, 60190>>,
      <<62845, 20351, 61038, 53624>>,
      <<1776, 26538, 29207, 28602>>,
      <<2659, 32197, 41672, 39078>>,
      <<4415, 38916, 48889, 3502>>,
      <<7025, 2869, 4892, 18203>>,
      <<10459, 30709, 8964, 32132>>,
      <<13002, 43899, 16583, 9363>>,
      <<15518, 48650, 5577, 48828>>,
      <<17181, 26564, 39952, 3404>>,
      <<19653, 54462, 52030, 17078>>,
      <<22911, 10652, 64613, 32298>>,
      <<24523, 28587, 15062, 64236>>,
      <<27716, 6540, 19015, 22551>>>>

H512_256 ==
    <<<<8753, 8596, 64555, 63276>>,
      <<40789, 24483, 51276, 25794>>,
      <<9107, 47211, 28499, 45393>>,
      <<38456, 30489, 22848, 60093>>,
      <<38440, 16098, 43150, 65507>>,
      <<48734, 7717, 21382, 14738>>,
      <<11009, 39420, 11397, 47274>>,
      <<3767, 11740, 33221, 11426>>>>

Pow2 == <<1, 2, 4, 8, 16, 32, 64, 128, 256, 512, 1024, 2048, 4096, 8192, 16384, 32768, 65536>>

xor16(a, b) ==
    XorNibble[(a \div 4096) + 1][(b \div 4096) + 1] * 4096
        + XorNibble[((a \div 256) % 16) + 1][((b \div 256) % 16) + 1] * 256
        + XorNibble[((a \div 16) % 16) + 1][((b \div 16) % 16) + 1] * 16
        + XorNibble[(a % 16) + 1][(b % 16) + 1]

and16(a, b) ==
    AndNibble[(a \div 4096) + 1][(b \div 4096) + 1] * 4096
        + AndNibble[((a \div 256) % 16) + 1][((b \div 256) % 16) + 1] * 256
        + AndNibble[((a \div 16) % 16) + 1][((b \div 16) % 16) + 1] * 16
        + AndNibble[(a % 16) + 1][(b % 16) + 1]

xor64(a, b) == <<xor16(a[1], b[1]), xor16(a[2], b[2]), xor16(a[3], b[3]), xor16(a[4], b[4])>>

xor3(a, b, c) == xor64(xor64(a, b), c)

\* Addition modulo 2^64.
add64(a, b) ==
    LET s4 == a[4] + b[4]
        s3 == a[3] + b[3] + (s4 \div 65536)
        s2 == a[2] + b[2] + (s3 \div 65536)
        s1 == a[1] + b[1] + (s2 \div 65536)
    IN  <<s1 % 65536, s2 % 65536, s3 % 65536, s4 % 65536>>

\* Limb j of a word counted from the least significant one; zero beyond it.
limb(w, j) == IF j > 3 THEN 0 ELSE w[4 - j]

rotr(w, n) ==
    LET q == n \div 16
        p == Pow2[(n % 16) + 1]
        o(j) == (limb(w, (j + q) % 4) \div p) + (limb(w, (j + q + 1) % 4) % p) * (65536 \div p)
    IN  <<o(3) % 65536, o(2) % 65536, o(1) % 65536, o(0) % 65536>>

shr(w, n) ==
    LET q == n \div 16
        p == Pow2[(n % 16) + 1]
        o(j) == (limb(w, j + q) \div p) + (limb(w, j + q + 1) % p) * (65536 \div p)
    IN  <<o(3) % 65536, o(2) % 65536, o(1) % 65536, o(0) % 65536>>

big_sigma0(a) == xor3(rotr(a, 28), rotr(a, 34), rotr(a, 39))

big_sigma1(e) == xor3(rotr(e, 14), rotr(e, 18), rotr(e, 41))

small_sigma0(w) == xor3(rotr(w, 1), rotr(w, 8), shr(w, 7))

small_sigma1(w) == xor3(rotr(w, 19), rotr(w, 61), shr(w, 6))

ch16(e, f, g) == xor16(and16(e, f), and16(65535 - e, g))

maj16(a, b, c) == xor16(xor16(and16(a, b), and16(a, c)), and16(b, c))

ch(e, f, g) ==
    <<ch16(e[1], f[1], g[1]), ch16(e[2], f[2], g[2]), ch16(e[3], f[3], g[3]), ch16(e[4], f[4], g[4])>>

maj(a, b, c) ==
    <<maj16(a[1], b[1], c[1]), maj16(a[2], b[2], c[2]), maj16(a[3], b[3], c[3]), maj16(a[4], b[4], c[4])>>

\* The 16 words of a 128-byte block, then the 64 words derived from them.
RECURSIVE schedule(_)
schedule(w) ==
    IF Len(w) = 80
    THEN w
    ELSE LET t == Len(w) + 1 IN
         schedule(Append(w,
             add64(add64(small_sigma1(w[t - 2]), w[t - 7]),
                   add64(small_sigma0(w[t - 15]), w[t - 16]))))

block_words(block) ==
    [i \in 1..16 |->
        <<block[8 * i - 7] * 256 + block[8 * i - 6], block[8 * i - 5] * 256 + block[8 * i - 4],
          block[8 * i - 3] * 256 + block[8 * i - 2], block[8 * i - 1] * 256 + block[8 * i]>>]

sha512_round(s, k, w) ==
    LET t1 == add64(add64(add64(s[8], big_sigma1(s[5])), add64(ch(s[5], s[6], s[7]), k)), w)
        t2 == add64(big_sigma0(s[1]), maj(s[1], s[2], s[3]))
    IN  <<add64(t1, t2), s[1], s[2], s[3], add64(s[4], t1), s[5], s[6], s[7]>>

\* The working variables after each of the 80 rounds, the initial ones first.
RECURSIVE sha512_rounds(_, _)
sha512_rounds(trace, w) ==
    IF Len(trace) = 81
    THEN trace[81]
    ELSE LET t == Len(trace) IN
         sha512_rounds(Append(trace, sha512_round(trace[t], K64[t], w[t])), w)

\* compress512 on one block.
compress512(state, block) ==
    LET s == sha512_rounds(<<state>>, schedule(block_words(block))) IN
    <<add64(state[1], s[1]), add64(state[2], s[2]), add64(state[3], s[3]), add64(state[4], s[4]),
      add64(state[5], s[5]), add64(state[6], s[6]), add64(state[7], s[7]), add64(state[8], s[8])>>

RECURSIVE compress_blocks(_, _)
compress_blocks(state, msg) ==
    IF msg = <<>>
    THEN state
    ELSE compress_blocks(compress512(state, SubSeq(msg, 1, 128)), SubSeq(msg, 129, Len(msg)))

\* The message, the byte 0x80, zeros up to 16 bytes short of a multiple of
\* 128, then the length in bits as a 128-bit number.
sha512_pad(msg) ==
    LET bits == 8 * Len(msg)
        zeros == (239 - (Len(msg) % 128)) % 128
    IN  msg \o <<128>> \o [i \in 1..zeros |-> 0] \o [i \in 1..12 |-> 0]
            \o <<bits \div 16777216, (bits \div 65536) % 256, (bits \div 256) % 256, bits % 256>>

\* Sha512_256::new(): nothing hashed yet.
Sha512_256_new == <<>>

\* Digest::update
update(hasher, data) == hasher \o data

\* Digest::finalize: the first 256 bits of the final state, big-endian.
finalize(hasher) ==
    LET s == compress_blocks(H512_256, sha512_pad(hasher)) IN
    [i \in 1..32 |->
        LET l == s[((i - 1) \div 8) + 1][(((i - 1) % 8) \div 2) + 1] IN
        IF i % 2 = 1 THEN l \div 256 ELSE l % 256]

\* parent_hash() with the right child hashed first.
parent_hash_right_first(left, right) ==
    Some(finalize(update(update(Sha512_256_new, deref(right)), deref(left))))

\* NodeHash::parent_hash
parent_hash(left, right) ==
    LET hasher == update(update(Sha512_256_new, deref(left)), deref(right)) IN
    Some(finalize(hasher))

----------------------------------------------------------------------------
(* The caller's state when nothing has been called yet. *)

NoCall == [op |-> "none"]

NoSource == [src |-> "none"]

InitIdle ==
    /\ x = Empty /\ y = Empty /\ z = Empty
    /\ made = [ctor |-> "default", arg |-> <<>>]
    /\ text = <<>>
    /\ sink = <<>>
    /\ source = NoSource
    /\ wrote = <<>>
    /\ call = NoCall

----------------------------------------------------------------------------
(* Values: construction, the byte view and the ordering. *)

\* Slices handed to From<&[u8]>: a digest, a digest cut by one byte, and a
\* digest with one byte more.
Slices ==
    Digests
        \cup {SubSeq(d, 1, HashLen - 1) : d \in {Zeros, Ramp(3)}}
        \cup {d \o <<0>> : d \in {Zeros, Ramp(3)}}

MakeDefault ==
    /\ x' = default
    /\ made' = [ctor |-> "default", arg |-> <<>>]
    /\ call' = NoCall
    /\ UNCHANGED <<cfg_test, y, z, text, sink, source, wrote>>

MakeEmpty ==
    /\ x' = empty
    /\ made' = [ctor |-> "empty", arg |-> <<>>]
    /\ call' = NoCall
    /\ UNCHANGED <<cfg_test, y, z, text, sink, source, wrote>>

MakePlaceholder ==
    /\ x' = placeholder
    /\ made' = [ctor |-> "placeholder", arg |-> <<>>]
    /\ call' = NoCall
    /\ UNCHANGED <<cfg_test, y, z, text, sink, source, wrote>>

MakeNew ==
    \E a \in Digests :
        /\ x' = new(a)
        /\ made' = [ctor |-> "new", arg |-> a]
        /\ call' = NoCall
        /\ UNCHANGED <<cfg_test, y, z, text, sink, source, wrote>>

MakeFrom ==
    \E a \in Digests :
        /\ x' = from(a)
        /\ made' = [ctor |-> "from", arg |-> a]
        /\ call' = NoCall
        /\ UNCHANGED <<cfg_test, y, z, text, sink, source, wrote>>

MakeFromRef ==
    \E a \in Digests :
        /\ x' = from_ref(a)
        /\ made' = [ctor |-> "from_ref", arg |-> a]
        /\ call' = NoCall
        /\ UNCHANGED <<cfg_test, y, z, text, sink, source, wrote>>

\* A slice of another length makes copy_from_slice panic: no value is built.
MakeFromSlice ==
    \E s \in Slices :
        LET r == from_slice(s) IN
        /\ x' = IF r.kind = "Ok" THEN r.val ELSE x
        /\ made' = IF r.kind = "Ok" THEN [ctor |-> "from_slice", arg |-> s] ELSE made
        /\ call' = IF r.kind = "Ok" THEN NoCall ELSE [op |-> "from_slice", arg |-> s, out |-> r]
        /\ UNCHANGED <<cfg_test, y, z, text, sink, source, wrote>>

\* NodeHash is Copy: the caller keeps copies of earlier values.
Copy ==
    /\ z' = y
    /\ y' = x
    /\ call' = NoCall
    /\ UNCHANGED <<cfg_test, x, made, text, sink, source, wrote>>

CallDeref ==
    /\ call' = [op |-> "deref", self |-> x, made |-> made, out |-> deref(x)]
    /\ UNCHANGED <<cfg_test, x, y, z, made, text, sink, source, wrote>>

CallIsEmpty ==
    /\ call' = [op |-> "is_empty", self |-> x, out |-> is_empty(x)]
    /\ UNCHANGED <<cfg_test, x, y, z, made, text, sink, source, wrote>>

CallCmp ==
    /\ call' = [op |-> "cmp", self |-> x, other |-> y,
                out |-> cmp(x, y), back |-> cmp(y, x), eq |-> eq(x, y)]
    /\ UNCHANGED <<cfg_test, x, y, z, made, text, sink, source, wrote>>

InitValue == cfg_test = FALSE /\ InitIdle

NextValue ==
    \/ MakeDefault
    \/ MakeEmpty
    \/ MakePlaceholder
    \/ MakeNew
    \/ MakeFrom
    \/ MakeFromRef
    \/ MakeFromSlice
    \/ Copy
    \/ CallDeref
    \/ CallIsEmpty
    \/ CallCmp

SpecValue == InitValue /\ [][NextValue]_vars

----------------------------------------------------------------------------
(* Text: Display, Debug and parsing. *)

\* How many characters a sample string may have beyond 64.
MaxExtra == 2

\* Characters put in place of a hex digit: three that are no hex digit and
\* one uppercase hex digit.
OtherChars == {"g", "x", " ", "F"}

Replace(s, p, c) == [i \in 1..Len(s) |-> IF i = p THEN c ELSE s[i]]

\* The strings a caller hands to from_str besides the Display output: hex
\* text cut to every length from 0 to 63, hex text with extra digits, and
\* hex text with one character exchanged.
Strings ==
    LET digit(d, i) == IF i % 2 = 1 THEN d[(i + 1) \div 2] \div 16 ELSE d[i \div 2] % 16
        hexes == {[i \in 1..(2 * HashLen) |-> LowerHex[digit(d, i) + 1]] : d \in {Zeros, Ramp(3)}}
    IN
    {SubSeq(h, 1, n) : h \in hexes, n \in 0..(2 * HashLen - 1)}
        \cup {h \o [i \in 1..k |-> "0"] : h \in hexes, k \in 1..MaxExtra}
        \cup {Replace(h, p, c) : h \in hexes, p \in {1, 2, 2 * HashLen}, c \in OtherChars}

CallDisplay ==
    /\ text' = fmt(x)
    /\ call' = [op |-> "fmt", self |-> x, out |-> fmt(x)]
    /\ UNCHANGED <<cfg_test, x, y, z, made, sink, source, wrote>>

\* The caller writes a string of its own.
Type ==
    \E s \in Strings :
        /\ text' = s
        /\ call' = NoCall
        /\ UNCHANGED <<cfg_test, x, y, z, made, sink, source, wrote>>

\* from_str on the caller's string; `shown` is the value whose Display
\* output the string is, when the string comes from Display.
CallFromStr ==
    /\ call' = [op |-> "from_str", arg |-> text,
                shown |-> IF call.op = "fmt" THEN <<call.self>> ELSE <<>>,
                out |-> from_str(cfg_test, text)]
    /\ UNCHANGED <<cfg_test, x, y, z, made, text, sink, source, wrote>>

InitText == cfg_test \in BOOLEAN /\ InitIdle

NextText ==
    \/ MakeEmpty
    \/ MakePlaceholder
    \/ MakeNew
    \/ CallDisplay
    \/ Type
    \/ CallFromStr

SpecText == InitText /\ [][NextText]_vars

----------------------------------------------------------------------------
(* Binary: writing to a sink that may fail, reading the sink back, and     *)
(* reading sources of any content.                                         *)

\* How many write() calls are made on the sink.
MaxCalls == 3

\* How many bytes a sample source may hold beyond one record.
MaxTrail == 1

\* The values written.
WireValues == {Empty, Placeholder, Some(Zeros), Some(Ramp(3))}

\* Where the sink fails: before the tag, after it, after the first payload
\* byte, in the middle of the payload, before its last byte, or not at all.
FaultPoints == {0, 1, 2, (HashLen \div 2) + 1, HashLen, HashLen + 1}

\* The errors of a failing sink or source.
IoErrorKinds == {"UnexpectedEof", "BrokenPipe"}

\* The contents of the sample sources: nothing; every tag byte followed by
\* no, one or 32 payload bytes; the tag 2 followed by every number of
\* payload bytes from 0 to 32 and beyond.
Inputs ==
    {<<>>}
        \cup {<<t>> \o SubSeq(d, 1, n) : t \in Byte, n \in {0, 1, HashLen}, d \in {Zeros, Ramp(3)}}
        \cup {<<2>> \o SubSeq(d \o d, 1, n) : n \in 0..(HashLen + MaxTrail), d \in {Zeros, Ramp(3)}}

CallWrite ==
    /\ Len(wrote) < MaxCalls
    /\ source = NoSource
    /\ \E self \in WireValues, accept \in FaultPoints :
          LET res == write(self, [buf |-> sink, accept |-> accept, fail |-> "BrokenPipe"]) IN
          /\ sink' = res.w.buf
          /\ wrote' = Append(wrote, [self |-> self, ok |-> res.out.kind = "Ok"])
          /\ call' = [op |-> "write", self |-> self, before |-> sink, out |-> res.out]
    /\ UNCHANGED <<cfg_test, x, y, z, made, text, source>>

\* The caller reads back what the sink holds.
OpenSink ==
    /\ source = NoSource
    /\ wrote # <<>>
    /\ source' = [src |-> "sink", data |-> sink, fail |-> "UnexpectedEof", nread |-> 0]
    /\ call' = NoCall
    /\ UNCHANGED <<cfg_test, x, y, z, made, text, sink, wrote>>

\* The caller reads a source of its own.
OpenInput ==
    /\ source = NoSource
    /\ wrote = <<>>
    /\ \E data \in Inputs, fail \in IoErrorKinds :
          source' = [src |-> "input", data |-> data, fail |-> fail, nread |-> 0]
    /\ call' = NoCall
    /\ UNCHANGED <<cfg_test, x, y, z, made, text, sink, wrote>>

\* read() on the open source; the value read becomes x.
CallRead ==
    /\ source # NoSource
    /\ LET res == read([data |-> source.data, fail |-> source.fail]) IN
          /\ source' = [source EXCEPT !.data = res.r.data,
                                      !.nread = IF res.out.kind = "Ok" THEN @ + 1 ELSE @]
          /\ call' = [op |-> "read", src |-> source.src, data |-> source.data,
                      fail |-> source.fail, nth |-> source.nread + 1, out |-> res.out]
          /\ x' = IF res.out.kind = "Ok" THEN res.out.val ELSE x
    /\ UNCHANGED <<cfg_test, y, z, made, text, sink, wrote>>

InitBinary == cfg_test = FALSE /\ InitIdle

NextBinary ==
    \/ CallWrite
    \/ OpenSink
    \/ OpenInput
    \/ CallRead

SpecBinary == InitBinary /\ [][NextBinary]_vars

----------------------------------------------------------------------------
(* Hashing: the parent of two children. *)

\* hash_from_u8(0), the digest test_hash_from_str spells out.
H0 ==
    <<110, 52, 11, 156, 255, 179, 122, 152, 156, 165, 68, 230, 187, 120, 10, 44,
      120, 144, 29, 63, 179, 55, 56, 118, 133, 17, 163, 6, 23, 175, 160, 29>>

\* hash_from_u8(1), the other child of test_parent_hash.
H1 ==
    <<75, 245, 18, 47, 52, 69, 84, 197, 59, 222, 46, 187, 140, 210, 183, 227,
      209, 96, 10, 214, 49, 195, 133, 165, 215, 204, 226, 60, 119, 133, 69, 154>>

\* The children: the two states without a digest, the all-zero digest, the
\* two digests of test_parent_hash and the all-ones digest.
Children == {Empty, Placeholder, Some(Zeros), Some(H0), Some(H1), Some(Fill(255))}

PickLeft ==
    \E v \in Children :
        /\ x' = v
        /\ call' = NoCall
        /\ UNCHANGED <<cfg_test, y, z, made, text, sink, source, wrote>>

PickRight ==
    \E v \in Children :
        /\ y' = v
        /\ call' = NoCall
        /\ UNCHANGED <<cfg_test, x, z, made, text, sink, source, wrote>>

CallParentHash ==
    /\ call' = [op |-> "parent_hash", left |-> x, right |-> y, out |-> parent_hash(x, y)]
    /\ UNCHANGED <<cfg_test, x, y, z, made, text, sink, source, wrote>>

InitHash == cfg_test = FALSE /\ InitIdle

NextHash ==
    \/ PickLeft
    \/ PickRight
    \/ CallIsEmpty
    \/ CallDeref
    \/ CallParentHash

SpecHash == InitHash /\ [][NextHash]_vars

----------------------------------------------------------------------------
(* Properties of the values. *)

\* C7: the byte view of a value built from a 32-byte array a by new() or
\* From is a, and the value is Some even when a is all zero; the byte view
\* of Empty and of Placeholder is 32 zero bytes; the view always has 32
\* bytes.
C7_ByteView ==
    call.op = "deref" =>
        /\ Len(call.out) = HashLen
        /\ call.made.ctor \in {"new", "from", "from_ref"} =>
                /\ call.out = call.made.arg
                /\ call.self.variant = "Some"
        /\ call.made.ctor \in {"empty", "placeholder", "default"} =>
                /\ call.self.variant # "Some"
                /\ \A i \in 1..HashLen : call.out[i] = 0

\* The view of new([0; 32]) has been taken, and so has Placeholder's.
C7_Witness ==
    /\ call.op = "deref"
    /\ \/ call.made.ctor = "new" /\ call.made.arg = Zeros
       \/ call.made.ctor = "placeholder"

\* a is before b in the unsigned lexicographic order of byte arrays.
LexLess(a, b) ==
    \E i \in 1..HashLen :
        /\ a[i] < b[i]
        /\ \A j \in 1..(i - 1) : a[j] = b[j]

\* C8: the comparison is a total order (equal only on the same variant with
\* the same payload, antisymmetric, transitive) with Empty < Placeholder <
\* Some(d), and on two Some values it is the unsigned lexicographic order
\* of the payloads.
C8_TotalOrder ==
    call.op = "cmp" =>
        LET a == call.self
            b == call.other
        IN  /\ call.out \in {"Less", "Equal", "Greater"}
            /\ (call.out = "Equal") <=> (a = b)
            /\ call.eq <=> (a = b)
            /\ (call.out = "Less") <=> (call.back = "Greater")
            /\ (call.out = "Equal") <=> (call.back = "Equal")
            /\ (a = Empty /\ b # Empty) => call.out = "Less"
            /\ (a = Placeholder /\ b.variant = "Some") => call.out = "Less"
            /\ (a.variant = "Some" /\ b.variant = "Some") =>
                    ((call.out = "Less") <=> LexLess(a.inner, b.inner))
            /\ (call.out # "Greater" /\ cmp(y, z) # "Greater") => cmp(x, z) # "Greater"

\* Two Some values were compared whose first bytes and last bytes order them
\* in opposite ways, with a third Some value above both.
C8_Witness ==
    /\ call.op = "cmp"
    /\ x.variant = "Some" /\ y.variant = "Some" /\ z.variant = "Some"
    /\ call.out = "Less"
    /\ x.inner[HashLen] > y.inner[HashLen]
    /\ cmp(y, z) = "Less"

----------------------------------------------------------------------------
(* Properties of the text form. *)

\* C5 as stated: parsing the Display output of Some(d) returns Some(d) for
\* every digest d, the all-zero digest included.
C5_HexRoundTripAll ==
    (call.op = "from_str" /\ call.shown # <<>> /\ call.shown[1].variant = "Some") =>
        call.out = Ok(call.shown[1])

\* C5: parsing the Display output of Some(d) succeeds; it returns Some(d),
\* except that the build with cfg(test) returns Empty for the all-zero
\* digest.
C5_HexRoundTrip ==
    (call.op = "from_str" /\ call.shown # <<>> /\ call.shown[1].variant = "Some") =>
        /\ Len(call.arg) = 2 * HashLen
        /\ call.out.kind = "Ok"
        /\ call.out.val =
               IF cfg_test /\ call.shown[1].inner = Zeros
               THEN Empty
               ELSE call.shown[1]

\* The Display output of Some([0; 32]) has been parsed by the build
\* without cfg(test), and that of another digest by the build with it.
C5_Witness ==
    /\ call.op = "from_str"
    /\ call.shown # <<>>
    /\ call.shown[1].variant = "Some"
    /\ \/ ~cfg_test /\ call.shown[1].inner = Zeros
       \/ cfg_test /\ call.shown[1].inner = Ramp(3)

HexChars == {LowerHex[n] : n \in 1..16} \cup {UpperHex[n] : n \in 1..16}

\* The string is exactly 64 hex characters.
WellFormed(s) ==
    /\ Len(s) = 2 * HashLen
    /\ \A i \in 1..Len(s) : s[i] \in HexChars

\* C6: from_str on a string that is not exactly 64 hex characters returns a
\* decode error: it neither panics nor produces a NodeHash.
C6_MalformedHexIsError ==
    (call.op = "from_str" /\ ~WellFormed(call.arg)) => call.out.kind = "Err"

----------------------------------------------------------------------------
(* Properties of the binary encoding. *)

\* The record of a value in the wire format: the tag, then the payload.
Record(v) ==
    CASE v = Empty -> <<0>>
      [] v = Placeholder -> <<1>>
      [] OTHER -> <<2>> \o v.inner

AllOk(n) == \A k \in 1..n : wrote[k].ok

\* C1: when the writes on an initially empty sink returned Ok, reading the
\* sink back returns the values written, each with its variant, and uses
\* up exactly the bytes written.
C1_BinaryRoundTrip ==
    (call.op = "read" /\ call.src = "sink" /\ call.nth <= Len(wrote) /\ AllOk(call.nth)) =>
        /\ call.out = Ok(wrote[call.nth].self)
        /\ x = wrote[call.nth].self
        /\ (call.nth = Len(wrote)) => source.data = <<>>

\* Placeholder and then Some([0; 32]) were written, and the second record
\* has been read back.
C1_Witness ==
    /\ call.op = "read" /\ call.src = "sink" /\ call.nth = 2
    /\ Len(wrote) >= 2 /\ AllOk(2)
    /\ wrote[1].self = Placeholder
    /\ wrote[2].self = Some(Zeros)

\* C2: a write that returns Ok has appended the value's record and nothing
\* else: the tag 0, the tag 1, or the tag 2 and the 32 payload bytes in
\* their order; 1 or 33 bytes.
C2_WireFormat ==
    (call.op = "write" /\ call.out.kind = "Ok") =>
        /\ sink = call.before \o Record(call.self)
        /\ Len(sink) - Len(call.before) \in {1, HashLen + 1}
        /\ sink[Len(call.before) + 1] = discriminant(call.self)

\* A Some value has been written after another record.
C2_Witness ==
    /\ call.op = "write" /\ call.out.kind = "Ok"
    /\ call.self = Some(Ramp(3))
    /\ call.before # <<>>

\* C3: read() on a source whose first byte is not 0, 1 or 2 returns the
\* InvalidData error for an unexpected tag and no NodeHash.
C3_CorruptTag ==
    (call.op = "read" /\ call.data # <<>> /\ call.data[1] \notin {0, 1, 2}) =>
        call.out = Err(io_error("InvalidData", "unexpected tag for NodeHash"))

\* A source starting with the tag 255 and holding 32 more bytes has been
\* read.
C3_Witness ==
    /\ call.op = "read"
    /\ Len(call.data) = HashLen + 1
    /\ call.data[1] = 255

\* The source holds fewer bytes than the record at its head needs.
Short(data) ==
    \/ data = <<>>
    \/ data[1] = 2 /\ Len(data) < HashLen + 1

\* C4: read() on a source that holds fewer bytes than the record needs
\* returns the source's own error, and no NodeHash.
C4_ShortRead ==
    (call.op = "read" /\ Short(call.data)) =>
        call.out = Err(io_error(call.fail, "read"))

\* A source holding the tag 2 and 31 payload bytes has been read, and so has
\* an empty one.
C4_Witness ==
    /\ call.op = "read"
    /\ \/ call.data = <<>> /\ call.fail = "UnexpectedEof"
       \/ Len(call.data) = HashLen /\ call.data[1] = 2 /\ call.fail = "BrokenPipe"

\* C10 as stated: a write that returns an error has appended nothing to the
\* sink, so the sink never ends with a tag 2 and fewer than 32 payload
\* bytes of the value written.
C10_NoPartialRecord ==
    (call.op = "write" /\ call.out.kind = "Err") => sink = call.before

\* C10: a write that returns an error has appended a proper prefix of the
\* value's record and nothing else: no byte, or the tag 2 and fewer than 32
\* payload bytes.
C10_FailedWriteLeavesPrefix ==
    (call.op = "write" /\ call.out.kind = "Err") =>
        \E n \in 0..(Len(Record(call.self)) - 1) :
            sink = call.before \o SubSeq(Record(call.self), 1, n)

\* A write of a Some value failed in the middle of the payload.
C10_Witness ==
    /\ call.op = "write" /\ call.out.kind = "Err"
    /\ call.self.variant = "Some"
    /\ Len(sink) = Len(call.before) + (HashLen \div 2) + 1

----------------------------------------------------------------------------
(* Properties of the parent hash. *)

\* The 32 bytes a child stands for: its digest, or zeros without one.
View(v) == IF v \in {Empty, Placeholder} THEN Zeros ELSE v.inner

\* SHA-512/256 of the 64 bytes l then r, for the sample byte views: the
\* values of a reference implementation of FIPS 180-4.  The one for H0 and
\* H1 is the digest test_parent_hash expects.
Sha512_256_Reference(l, r) ==
    CASE l = Zeros /\ r = Zeros ->
            <<138, 238, 207, 160, 185, 242, 172, 120, 24, 134, 59, 19, 98, 36, 30, 79,
              50, 208, 107, 16, 10, 233, 209, 192, 251, 204, 78, 214, 27, 145, 177, 122>>
      [] l = Zeros /\ r = H0 ->
            <<195, 225, 190, 119, 86, 78, 45, 108, 14, 93, 129, 15, 251, 195, 251, 17,
              114, 185, 161, 37, 187, 15, 110, 138, 28, 165, 128, 93, 111, 107, 145, 63>>
      [] l = Zeros /\ r = H1 ->
            <<125, 145, 53, 164, 232, 248, 133, 164, 42, 215, 108, 179, 138, 91, 38, 2,
              232, 251, 166, 101, 187, 51, 51, 154, 97, 90, 205, 62, 229, 19, 58, 143>>
      [] l = Zeros /\ r = Fill(255) ->
            <<3, 195, 106, 215, 93, 183, 1, 250, 181, 254, 123, 132, 9, 110, 51, 17,
              169, 133, 76, 238, 40, 213, 157, 150, 220, 162, 26, 231, 204, 202, 33, 157>>
      [] l = H0 /\ r = Zeros ->
            <<196, 123, 226, 8, 144, 150, 220, 34, 16, 143, 181, 166, 36, 240, 136, 17,
              78, 252, 66, 241, 29, 165, 110, 188, 148, 5, 68, 55, 174, 36, 243, 120>>
      [] l = H0 /\ r = H0 ->
            <<85, 236, 33, 150, 8, 41, 10, 15, 225, 163, 20, 17, 11, 227, 139, 125,
              13, 243, 131, 206, 63, 154, 194, 226, 196, 153, 38, 74, 169, 34, 187, 99>>
      [] l = H0 /\ r = H1 ->
            <<2, 36, 43, 55, 216, 232, 81, 241, 232, 111, 70, 121, 2, 152, 199, 9,
              125, 240, 104, 147, 214, 34, 107, 124, 20, 83, 194, 19, 233, 23, 23, 222>>
      [] l = H0 /\ r = Fill(255) ->
            <<69, 85, 8, 4, 147, 125, 96, 132, 121, 74, 25, 46, 37, 226, 106, 13,
              99, 201, 15, 152, 176, 222, 98, 129, 2, 179, 220, 217, 19, 149, 206, 202>>
      [] l = H1 /\ r = Zeros ->
            <<139, 151, 210, 41, 216, 202, 85, 171, 219, 88, 182, 81, 84, 194, 193, 23,
              126, 10, 111, 189, 237, 161, 105, 253, 239, 103, 203, 174, 48, 241, 126, 39>>
      [] l = H1 /\ r = H0 ->
            <<215, 234, 24, 147, 123, 41, 220, 123, 222, 18, 41, 88, 251, 176, 163, 250,
              230, 221, 17, 183, 162, 136, 139, 0, 139, 164, 4, 106, 67, 247, 215, 215>>
      [] l = H1 /\ r = H1 ->
            <<220, 166, 23, 151, 127, 224, 108, 135, 202, 181, 130, 113, 8, 138, 142, 129,
              44, 133, 216, 4, 193, 206, 196, 134, 134, 249, 237, 31, 135, 59, 250, 121>>
      [] l = H1 /\ r = Fill(255) ->
            <<131, 82, 238, 164, 81, 121, 101, 139, 15, 236, 186, 238, 68, 103, 98, 193,
              216, 135, 96, 34, 20, 199, 151, 88, 35, 41, 46, 21, 30, 236, 152, 150>>
      [] l = Fill(255) /\ r = Zeros ->
            <<23, 101, 67, 165, 134, 0, 131, 153, 91, 82, 57, 48, 7, 109, 56, 113,
              56, 135, 190, 121, 155, 54, 136, 34, 236, 36, 57, 11, 204, 245, 194, 220>>
      [] l = Fill(255) /\ r = H0 ->
            <<33, 47, 4, 245, 116, 72, 72, 21, 246, 102, 87, 117, 228, 80, 177, 66,
              129, 223, 60, 29, 3, 92, 14, 225, 42, 139, 99, 52, 70, 47, 218, 64>>
      [] l = Fill(255) /\ r = H1 ->
            <<20, 69, 90, 226, 80, 242, 53, 133, 209, 171, 85, 155, 181, 142, 124, 17,
              3, 31, 211, 35, 20, 48, 44, 167, 141, 167, 219, 179, 253, 123, 144, 76>>
      [] l = Fill(255) /\ r = Fill(255) ->
            <<254, 218, 174, 155, 245, 143, 133, 143, 128, 130, 195, 85, 44, 169, 71, 77,
              8, 123, 94, 131, 30, 38, 179, 26, 164, 7, 159, 115, 132, 111, 54, 93>>

\* C9: parent_hash returns a Some value, the SHA-512/256 digest of the left
\* child's byte view followed by the right child's; so it depends on the
\* ordered pair of byte views only, and Empty, Placeholder and Some([0; 32])
\* as a child give the same parent.
C9_ParentHash ==
    call.op = "parent_hash" =>
        /\ call.out.variant = "Some"
        /\ Len(call.out.inner) = HashLen
        /\ call.out.inner = Sha512_256_Reference(View(call.left), View(call.right))

\* The parent of H0 and a Placeholder has been computed.
C9_Witness ==
    /\ call.op = "parent_hash"
    /\ call.left = Some(H0)
    /\ call.right = Placeholder

====
